---- MODULE Spec2Model ----
(***************************************************************************)
(* sensu-go-systemd-handler: the handler run (checkArgs, executeHandler),  *)
(* the D-Bus tunnel (ssh process + unix socket, and the listener + TCP     *)
(* variant), the capability introspection and the unit fetchers.           *)
(*                                                                         *)
(* Strings that the code inspects character by character (unit names,      *)
(* glob patterns) are sequences of one-character strings.  Method names    *)
(* are sequences of words, so that strings.Contains(name, "ListUnits") is  *)
(* a test on the name and not a table.                                     *)
(***************************************************************************)
EXTENDS Integers, Sequences, FiniteSets, TLC

\* ------------------------------------------------------------------ bounds

\* longest unit list / pattern list / state list the fetcher checks draw
MaxFetchUnits == 2
MaxFetchPatterns == 2
MaxFetchStates == 1
\* most interfaces in an introspection document
MaxIfaces == 2
\* most unit names a run dispatches
MaxUnits == 2
\* NewDBusTunnel invocations running side by side on one host
MaxCalls == 2
\* free local TCP ports, and free names for a temp directory
MaxPoints == 3

\* ------------------------------------------------------------- sequences

Range(s) == {s[i] : i \in 1..Len(s)}

SeqsUpTo(S, n) == UNION {[1..k -> S] : k \in 0..n}

\* ------------------------------------------------------- filepath.Match

\* The pattern alphabet: two letters, the wildcards, and "[" which (there
\* being no "]" in the alphabet) always opens a class that never closes.
NameChars == {"a", "b"}
PatternChars == NameChars \cup {"*", "?", "["}

\* filepath.ErrBadPattern: an unterminated character class.
BadPattern(pattern) == \E i \in 1..Len(pattern) : pattern[i] = "["

RECURSIVE GlobPrefix(_, _)
\* a mutation of Glob: an exhausted pattern accepts whatever is left of the
\* name, so a pattern matches every name it is a prefix of
GlobPrefix(pattern, name) ==
    IF pattern = <<>> THEN TRUE
    ELSE IF Head(pattern) = "*"
         THEN \E k \in 0..Len(name) : GlobPrefix(Tail(pattern), SubSeq(name, k + 1, Len(name)))
    ELSE /\ name # <<>>
         /\ (Head(pattern) = "?" \/ Head(pattern) = Head(name))
         /\ GlobPrefix(Tail(pattern), Tail(name))

RECURSIVE Glob(_, _)
\* shell-glob match of a well-formed pattern: "*" any run, "?" any one char
Glob(pattern, name) ==
    IF pattern = <<>> THEN name = <<>>
    ELSE IF Head(pattern) = "*"
         THEN \E k \in 0..Len(name) : Glob(Tail(pattern), SubSeq(name, k + 1, Len(name)))
    ELSE /\ name # <<>>
         /\ (Head(pattern) = "?" \/ Head(pattern) = Head(name))
         /\ Glob(Tail(pattern), Tail(name))

\* filepath.Match(pattern, name): (matched, err)
Match(pattern, name) ==
    IF BadPattern(pattern) THEN [matched |-> FALSE, err |-> TRUE]
    ELSE [matched |-> Glob(pattern, name), err |-> FALSE]

\* ------------------------------------------------------ MatchUnitPatterns

\* The inner loop over the patterns for one unit: "match", "nomatch", or
\* "err" with the offending pattern; it stops at the first match or error.
RECURSIVE MatchOneUnit(_, _)
MatchOneUnit(patterns, name) ==
    IF patterns = <<>> THEN [kind |-> "nomatch", pattern |-> <<>>]
    ELSE LET m == Match(Head(patterns), name) IN
         IF m.err THEN [kind |-> "err", pattern |-> Head(patterns)]
         ELSE IF m.matched THEN [kind |-> "match", pattern |-> Head(patterns)]
         ELSE MatchOneUnit(Tail(patterns), name)

RECURSIVE MatchUnitPatterns(_, _)
\* MatchUnitPatterns(patterns, units): (units, err, pattern)
MatchUnitPatterns(patterns, units) ==
    IF units = <<>> THEN [units |-> <<>>, err |-> FALSE, pattern |-> <<>>]
    ELSE LET one == MatchOneUnit(patterns, Head(units).Name)
             rest == MatchUnitPatterns(patterns, Tail(units))
         IN  IF one.kind = "err"
             THEN [units |-> <<>>, err |-> TRUE, pattern |-> one.pattern]
             ELSE IF rest.err THEN rest
             ELSE IF one.kind = "match"
                  THEN [rest EXCEPT !.units = <<Head(units)>> \o rest.units]
             ELSE rest

\* ----------------------------------------------------- listUnitsWrapper

\* the state test of listUnitsWrapper's inner loop
StateHit(unit, states) ==
    \E i \in 1..Len(states) :
        unit.LoadState = states[i] \/ unit.ActiveState = states[i] \/ unit.SubState = states[i]

RECURSIVE FilterByState(_, _)
FilterByState(units, states) ==
    IF units = <<>> THEN <<>>
    ELSE IF StateHit(Head(units), states)
         THEN <<Head(units)>> \o FilterByState(Tail(units), states)
    ELSE FilterByState(Tail(units), states)

\* a mutation of listUnitsWrapper: the len(patterns) > 0 guard dropped
listUnitsWrapperNoGuard(listed, listErr, states, patterns) ==
    IF listErr THEN [units |-> <<>>, err |-> TRUE]
    ELSE LET m == MatchUnitPatterns(patterns, listed) IN
         IF m.err THEN [units |-> <<>>, err |-> TRUE]
         ELSE IF Len(states) > 0
              THEN [units |-> FilterByState(m.units, states), err |-> FALSE]
         ELSE [units |-> m.units, err |-> FALSE]

\* listUnitsWrapper: listed/listErr are what conn.ListUnitsContext returned
listUnitsWrapper(listed, listErr, states, patterns) ==
    IF listErr THEN [units |-> <<>>, err |-> TRUE]
    ELSE LET m == IF Len(patterns) > 0 THEN MatchUnitPatterns(patterns, listed)
                  ELSE [units |-> listed, err |-> FALSE, pattern |-> <<>>]
         IN  IF m.err THEN [units |-> <<>>, err |-> TRUE]
             ELSE IF Len(states) > 0
                  THEN [units |-> FilterByState(m.units, states), err |-> FALSE]
             ELSE [units |-> m.units, err |-> FALSE]

\* ------------------------------------------- InstrospectForUnitMethods

\* Method names, as sequences of words.
ListUnitsByPatterns == <<"ListUnits", "ByPatterns">>
ListUnitsFiltered == <<"ListUnits", "Filtered">>
ListUnits == <<"ListUnits">>
ListUnitsByNames == <<"ListUnits", "ByNames">>
GetUnit == <<"Get", "Unit">>
MethodNames == {ListUnitsByPatterns, ListUnitsFiltered, ListUnits, ListUnitsByNames, GetUnit}

\* strings.Contains(method.Name, "ListUnits")
ContainsListUnits(name) == \E i \in 1..Len(name) : name[i] = "ListUnits"

\* parseXMLAndReturnMethods: ifaces is the document's interface list (each
\* interface the set of its method names), xmlErr whether Unmarshal failed.
parseXMLAndReturnMethods(ifaces, xmlErr) ==
    IF xmlErr THEN [err |-> TRUE, methodMap |-> {}]
    ELSE IF Len(ifaces) = 0 THEN [err |-> TRUE, methodMap |-> {}]
    ELSE [err |-> FALSE,
          methodMap |-> {m \in UNION Range(ifaces) : ContainsListUnits(m)}]

\* a mutation of the selection: ListUnitsFiltered tried before ListUnitsByPatterns
SelectFetcherFilteredFirst(unitMap) ==
    IF ListUnitsFiltered \in unitMap THEN [fetcher |-> "listUnitsFilteredWrapper", methods |-> {}]
    ELSE IF ListUnitsByPatterns \in unitMap THEN [fetcher |-> "listUnitsByPatternWrapper", methods |-> {}]
    ELSE IF ListUnits \in unitMap THEN [fetcher |-> "listUnitsWrapper", methods |-> {}]
    ELSE [fetcher |-> "none", methods |-> unitMap]

\* the if / else-if chain "ordered by desirability"; fetcher "none" is the
\* error "no supported list Units function: %v" carrying unitMap
SelectFetcher(unitMap) ==
    IF ListUnitsByPatterns \in unitMap THEN [fetcher |-> "listUnitsByPatternWrapper", methods |-> {}]
    ELSE IF ListUnitsFiltered \in unitMap THEN [fetcher |-> "listUnitsFilteredWrapper", methods |-> {}]
    ELSE IF ListUnits \in unitMap THEN [fetcher |-> "listUnitsWrapper", methods |-> {}]
    ELSE [fetcher |-> "none", methods |-> unitMap]

\* InstrospectForUnitMethods: busErr is a failure of SystemBusPrivate, Auth,
\* Hello or the Introspect call; error "parse" is "error handling XML".
InstrospectForUnitMethods(ifaces, busErr, xmlErr) ==
    IF busErr THEN [fetcher |-> "none", error |-> "bus", methods |-> {}]
    ELSE LET parsed == parseXMLAndReturnMethods(ifaces, xmlErr) IN
         IF parsed.err THEN [fetcher |-> "none", error |-> "parse", methods |-> {}]
         ELSE LET sel == SelectFetcher(parsed.methodMap) IN
              [fetcher |-> sel.fetcher,
               error |-> IF sel.fetcher = "none" THEN "unsupported" ELSE "nil",
               methods |-> sel.methods]

\* -------------------------------------------------------------- variables

VARIABLES
    variant,      \* which NewDBusTunnel is built in: "unix" (ssh + socket) or "tcp" (listener)
    pc,           \* where the main goroutine is
    Action,       \* plugin.Action
    tun,          \* the DBusTunnel and the resources it owns
    process,      \* "running", or "fatal" once log.Fatalf or a panic ended it
    unitFetcher,  \* the fetcher InstrospectForUnitMethods returned
    fetchCall,    \* the remote method the fetcher called, and whether the remote has it
    unitNames,    \* executeHandler's unitNames
    tasks,        \* one record per spawned goroutine
    wg,           \* the WaitGroup's counter
    errors,       \* the buffered channel's contents
    errorsClosed, \* close(errors) has happened
    err,          \* executeHandler's return value
    fetchIn,      \* arguments of a fetcher call under test
    fetchOut,     \* its result
    introIn,      \* an introspection document under test
    introOut,     \* InstrospectForUnitMethods' result for it
    calls,        \* concurrent NewDBusTunnel invocations and their rendezvous points
    inUse         \* the host's rendezvous points that exist now: bound ports, temp directories

vars == <<variant, pc, Action, tun, process, unitFetcher, fetchCall, unitNames, tasks,
          wg, errors, errorsClosed, err, fetchIn, fetchOut, introIn, introOut, calls, inUse>>

fetchVars == <<fetchIn, fetchOut>>
introVars == <<introIn, introOut>>
hostVars == <<calls, inUse>>
runVars == <<variant, pc, Action, tun, process, unitFetcher, fetchCall, unitNames, tasks,
             wg, errors, errorsClosed, err>>

NoTunnel ==
    [tmpdir |-> "none", sock |-> FALSE, listening |-> FALSE, proc |-> "none", ctx |-> "none", cmd |-> FALSE,
     watching |-> FALSE, event |-> FALSE, listener |-> "none", monitor |-> FALSE, closes |-> 0]

NoCall == [method |-> <<>>, supported |-> FALSE]

NilErr == [kind |-> "nil", errs |-> <<>>]

RunIdle ==
    /\ variant = "unix" /\ pc = "idle" /\ Action = "" /\ tun = NoTunnel
    /\ process = "running" /\ unitFetcher = "none" /\ fetchCall = NoCall
    /\ unitNames = <<>> /\ tasks = <<>> /\ wg = 0 /\ errors = <<>>
    /\ errorsClosed = FALSE /\ err = NilErr

Idle == [fn |-> "idle"]

FetchIdle == fetchIn = Idle /\ fetchOut = Idle
IntroIdle == introIn = Idle /\ introOut = Idle
HostIdle == calls = <<>> /\ inUse = {}

\* ------------------------------------------ the introspection, on its own

IfaceLists == SeqsUpTo(SUBSET MethodNames, MaxIfaces)

InitIntro ==
    /\ RunIdle /\ FetchIdle /\ HostIdle
    /\ introIn \in [fn : {"InstrospectForUnitMethods"}, ifaces : IfaceLists, busErr : BOOLEAN, xmlErr : BOOLEAN]
    /\ introOut = Idle

ApplyIntrospect ==
    /\ introIn.fn # "idle" /\ introOut.fn = "idle"
    /\ introOut' = [fn |-> introIn.fn,
                    res |-> InstrospectForUnitMethods(introIn.ifaces, introIn.busErr, introIn.xmlErr)]
    /\ UNCHANGED <<introIn, fetchVars, runVars, hostVars>>

NextIntro == ApplyIntrospect

SpecIntro == InitIntro /\ [][NextIntro]_vars

\* -------------------------------------------------- the fetchers, on their own

UnitStates == {"loaded", "active", "dead"}

\* dbus.UnitStatus, the fields the code reads
Unit(name, active, sub) ==
    [Name |-> name, LoadState |-> "loaded", ActiveState |-> active, SubState |-> sub]

UnitStatuses ==
    {Unit(<<"a">>, "active", "running"), Unit(<<"a", "b">>, "inactive", "dead"),
     Unit(<<"b">>, "active", "exited")}

FetchPatterns == {<<"a">>, <<"a", "*">>, <<"?">>, <<"[">>}

\* unit names and patterns of a typical invocation, letter by letter
NginxService == <<"n", "g", "i", "n", "x", ".", "s", "e", "r", "v", "i", "c", "e">>
RedisService == <<"r", "e", "d", "i", "s", ".", "s", "e", "r", "v", "i", "c", "e">>
MysqlService == <<"m", "y", "s", "q", "l", ".", "s", "e", "r", "v", "i", "c", "e">>
NginxStar == <<"n", "g", "i", "n", "x", "*">>
Redis == <<"r", "e", "d", "i", "s">>

\* a fetcher call with --unit 'nginx*' --unit redis against three active
\* units; executeHandler passes nil states
ExampleFetch ==
    [fn |-> "fetch",
     listed |-> <<Unit(NginxService, "active", "running"), Unit(RedisService, "active", "running"),
                  Unit(MysqlService, "active", "running")>>,
     listErr |-> FALSE, states |-> <<>>, patterns |-> <<NginxStar, Redis>>]

InitFetch ==
    /\ RunIdle /\ IntroIdle /\ HostIdle
    /\ fetchIn \in [fn : {"fetch"}, listed : SeqsUpTo(UnitStatuses, MaxFetchUnits), listErr : BOOLEAN,
                    states : SeqsUpTo(UnitStates, MaxFetchStates),
                    patterns : SeqsUpTo(FetchPatterns, MaxFetchPatterns)]
                   \cup {ExampleFetch}
    /\ fetchOut = Idle

ApplyListUnitsWrapper ==
    /\ fetchIn.fn # "idle" /\ fetchOut.fn = "idle"
    /\ fetchOut' = [fn |-> "listUnitsWrapper",
                    res |-> listUnitsWrapper(fetchIn.listed, fetchIn.listErr,
                                             fetchIn.states, fetchIn.patterns)]
    /\ UNCHANGED <<fetchIn, introVars, runVars, hostVars>>

\* ------------------------------- NewDBusTunnel, several invocations at once

\* the host's free local ports (listener variant) or free temp directory
\* names (ssh variant)
Points == 1..MaxPoints

NewCall(v) == [variant |-> v, pc |-> "start", point |-> 0]

InitRendezvous ==
    /\ RunIdle /\ FetchIdle /\ IntroIdle
    /\ \E v \in {"unix", "tcp"} : calls = [i \in 1..MaxCalls |-> NewCall(v)]
    /\ inUse = {}

\* getFreeLocalAddr: ListenTCP on port 0 gets a port no one holds, l.Addr()
\* is returned and the deferred l.Close() gives the port back
CallGetFreeLocalAddr(i) ==
    /\ calls[i].variant = "tcp" /\ calls[i].pc = "start"
    /\ \E p \in Points \ inUse :
          calls' = [calls EXCEPT ![i].pc = "listen", ![i].point = p]
    /\ UNCHANGED <<inUse, fetchVars, introVars, runVars>>

\* sshtunnel.ListenContext(ctx, t.laddr, ...): binds the address, or fails
\* when it is held by now
CallListenContext(i) ==
    /\ calls[i].pc = "listen"
    /\ IF calls[i].point \in inUse
       THEN calls' = [calls EXCEPT ![i].pc = "collided"] /\ UNCHANGED inUse
       ELSE /\ calls' = [calls EXCEPT ![i].pc = "open"]
            /\ inUse' = inUse \cup {calls[i].point}
    /\ UNCHANGED <<fetchVars, introVars, runVars>>

\* os.MkdirTemp("", "ssh-tun*"): creates a directory under a name that did
\* not exist; lsock is dbus.sock inside it
CallMkdirTemp(i) ==
    /\ calls[i].variant = "unix" /\ calls[i].pc = "start"
    /\ \E d \in Points \ inUse :
          /\ calls' = [calls EXCEPT ![i].pc = "run", ![i].point = d]
          /\ inUse' = inUse \cup {d}
    /\ UNCHANGED <<fetchVars, introVars, runVars>>

\* t.run(): ssh binds lsock and the tunnel is returned, or run fails and
\* t.Close() removes the directory
CallRun(i) ==
    /\ calls[i].pc = "run"
    /\ \E ok \in BOOLEAN :
          IF ok THEN calls' = [calls EXCEPT ![i].pc = "open"] /\ UNCHANGED inUse
          ELSE /\ calls' = [calls EXCEPT ![i].pc = "failed"]
               /\ inUse' = inUse \ {calls[i].point}
    /\ UNCHANGED <<fetchVars, introVars, runVars>>

\* Close: the listener is closed, or the temp directory removed
CallClose(i) ==
    /\ calls[i].pc = "open"
    /\ calls' = [calls EXCEPT ![i].pc = "closed"]
    /\ inUse' = inUse \ {calls[i].point}
    /\ UNCHANGED <<fetchVars, introVars, runVars>>

NextRendezvous ==
    \E i \in 1..Len(calls) :
        \/ CallGetFreeLocalAddr(i) \/ CallListenContext(i)
        \/ CallMkdirTemp(i) \/ CallRun(i)
        \/ CallClose(i)

SpecRendezvous == InitRendezvous /\ [][NextRendezvous]_vars

\* ------------------------------------------------- checkArgs, getActionFunc

AllowedActions ==
    <<"start", "stop", "restart", "reload", "try-restart", "reload-or-restart",
      "reload-or-try-restart">>

AllowedModes == <<"replace", "fail", "isolate", "ignore-dependencies", "ignore-requirements">>

stringsContains(sl, s) == \E i \in 1..Len(sl) : sl[i] = s

\* a mutation of checkArgs: the action is not looked up in allowedActions
checkArgsAnyAction(nPatterns, action, mode) ==
    IF nPatterns = 0 THEN "unit"
    ELSE IF ~stringsContains(AllowedModes, mode) THEN "mode"
    ELSE "nil"

\* checkArgs: "nil", or which argument it rejects
checkArgs(nPatterns, action, mode) ==
    IF nPatterns = 0 THEN "unit"
    ELSE IF ~stringsContains(AllowedActions, action) THEN "action"
    ELSE IF ~stringsContains(AllowedModes, mode) THEN "mode"
    ELSE "nil"

\* getActionFunc: the conn method for plugin.Action, "nil" with the
\* "unsupported action" error
getActionFunc(action) ==
    CASE action = "start" -> "StartUnit"
      [] action = "stop" -> "StopUnit"
      [] action = "restart" -> "RestartUnit"
      [] action = "reload" -> "ReloadUnit"
      [] action = "try-restart" -> "TryRestartUnit"
      [] action = "reload-or-restart" -> "ReloadOrRestartUnit"
      [] action = "reload-or-try-restart" -> "ReloadOrTryRestartUnit"
      [] OTHER -> "nil"

\* what the command line may hold
ActionInputs == Range(AllowedActions) \cup {"status"}
ModeInputs == Range(AllowedModes) \cup {"force"}

\* ------------------------------------------------------------ the tunnel

\* DBusTunnel.Close of the ssh variant: Kill only through t.cmd, then the
\* context's cancel function, then RemoveAll(tmpdir)
CloseUnix(t) ==
    [t EXCEPT !.proc = IF t.cmd /\ t.proc = "running" THEN "killed" ELSE @,
              !.listening = IF t.cmd THEN FALSE ELSE @,
              !.ctx = "cancelled",
              !.tmpdir = "removed", !.sock = FALSE,
              !.closes = @ + 1]

\* DBusTunnel.Close of the listener variant: listener.Close, then cancel;
\* the closed listener ends the error channel and with it the monitor
CloseTcp(t) ==
    [t EXCEPT !.listener = "closed", !.monitor = FALSE, !.ctx = "cancelled",
              !.closes = @ + 1]

Close(t) == IF variant = "unix" THEN CloseUnix(t) ELSE CloseTcp(t)

\* the forwarded path accepts connections and carries signals
TunnelAlive ==
    IF variant = "unix" THEN tun.proc = "running" /\ tun.sock /\ tun.listening
    ELSE tun.listener = "open"

Running == process = "running"

Err(kind) == [kind |-> kind, errs |-> <<>>]

\* `return fmt.Errorf("SSH Tunnel error: %w", err)`: no Close is deferred yet
ReturnTunnelError ==
    /\ pc' = "returned"
    /\ err' = Err("tunnel")

\* a `return` after `defer stun.Close()`
ReturnClosing(e) ==
    /\ pc' = "returned"
    /\ err' = e
    /\ tun' = Close(tun)

dispatchVars == <<unitNames, tasks, wg, errors, errorsClosed>>
resolveVars == <<unitFetcher, fetchCall>>
sideVars == <<fetchIn, fetchOut, introIn, introOut, calls, inUse>>

Init ==
    /\ variant \in {"unix", "tcp"}
    /\ pc = "checkArgs" /\ Action = "" /\ tun = NoTunnel
    /\ process = "running" /\ unitFetcher = "none" /\ fetchCall = NoCall
    /\ unitNames = <<>> /\ tasks = <<>> /\ wg = 0 /\ errors = <<>>
    /\ errorsClosed = FALSE /\ err = NilErr
    /\ FetchIdle /\ IntroIdle /\ HostIdle

\* the harness runs checkArgs on the loaded configuration, then executeHandler
CheckArgs ==
    /\ pc = "checkArgs" /\ Running
    /\ \E a \in ActionInputs, m \in ModeInputs, n \in 0..1 :
          /\ Action' = a
          /\ pc' = IF checkArgs(n, a, m) = "nil" THEN "executeHandler" ELSE "rejected"
    /\ UNCHANGED <<variant, tun, process, resolveVars, dispatchVars, err, sideVars>>

\* NewDBusTunnel (ssh): MkdirTemp, then context.WithCancel and the struct
MkdirTemp ==
    /\ pc = "executeHandler" /\ Running /\ variant = "unix"
    /\ \E ok \in BOOLEAN :
          IF ok
          THEN /\ tun' = [tun EXCEPT !.tmpdir = "present", !.ctx = "live"]
               /\ pc' = "cmdStart"
               /\ UNCHANGED err
          ELSE ReturnTunnelError /\ UNCHANGED tun
    /\ UNCHANGED <<variant, Action, process, resolveVars, dispatchVars, sideVars>>

\* `err = t.run(); if err != nil { t.Close(); return nil, err }`
RunFailed ==
    /\ tun' = CloseUnix([tun EXCEPT !.watching = FALSE])
    /\ ReturnTunnelError

\* run(): cmd := exec.CommandContext(...); cmd.Start().  cmd stays a local:
\* t.cmd is not assigned.
CmdStart ==
    /\ pc = "cmdStart" /\ Running
    /\ \E ok \in BOOLEAN :
          IF ok
          THEN /\ tun' = [tun EXCEPT !.proc = "running"]
               /\ pc' = "watcherNew"
               /\ UNCHANGED err
          ELSE RunFailed
    /\ UNCHANGED <<variant, Action, process, resolveVars, dispatchVars, sideVars>>

\* waitForSocket: fsnotify.NewWatcher()
WatcherNew ==
    /\ pc = "watcherNew" /\ Running
    /\ \E ok \in BOOLEAN :
          IF ok THEN pc' = "watcherAdd" /\ UNCHANGED <<tun, err>>
          ELSE RunFailed
    /\ UNCHANGED <<variant, Action, process, resolveVars, dispatchVars, sideVars>>

\* waitForSocket: watcher.Add(t.tmpdir)
WatcherAdd ==
    /\ pc = "watcherAdd" /\ Running
    /\ \E ok \in BOOLEAN :
          IF ok
          THEN /\ tun' = [tun EXCEPT !.watching = TRUE]
               /\ pc' = "select"
               /\ UNCHANGED err
          ELSE RunFailed
    /\ UNCHANGED <<variant, Action, process, resolveVars, dispatchVars, sideVars>>

\* waitForSocket: `case <-watcher.Events: return nil`; NewDBusTunnel returns t
\* and executeHandler defers stun.Close()
SelectEvent ==
    /\ pc = "select" /\ Running /\ tun.event
    /\ tun' = [tun EXCEPT !.watching = FALSE, !.event = FALSE]
    /\ pc' = "stunNew"
    /\ UNCHANGED <<variant, Action, process, resolveVars, dispatchVars, err, sideVars>>

\* waitForSocket: `case err := <-watcher.Errors`
SelectError ==
    /\ pc = "select" /\ Running
    /\ RunFailed
    /\ UNCHANGED <<variant, Action, process, resolveVars, dispatchVars, sideVars>>

\* waitForSocket: `case <-timer.C`: 30 s went by with no event delivered
SelectTimeout ==
    /\ pc = "select" /\ Running /\ ~tun.event
    /\ RunFailed
    /\ UNCHANGED <<variant, Action, process, resolveVars, dispatchVars, sideVars>>

\* the ssh process binds the -L socket in the temp directory: the socket file
\* appears, and a watcher registered by then sees the creation
SshCreatesSocket ==
    /\ Running /\ tun.proc = "running" /\ tun.tmpdir = "present" /\ ~tun.sock
    /\ tun' = [tun EXCEPT !.sock = TRUE, !.event = tun.watching]
    /\ UNCHANGED <<variant, pc, Action, process, resolveVars, dispatchVars, err, sideVars>>

\* the ssh process, having bound the socket, starts listening on it
SshListens ==
    /\ Running /\ tun.proc = "running" /\ tun.sock /\ ~tun.listening
    /\ tun' = [tun EXCEPT !.listening = TRUE]
    /\ UNCHANGED <<variant, pc, Action, process, resolveVars, dispatchVars, err, sideVars>>

\* the ssh process ends on its own
SshExits ==
    /\ Running /\ tun.proc = "running"
    /\ tun' = [tun EXCEPT !.proc = "exited", !.listening = FALSE]
    /\ UNCHANGED <<variant, pc, Action, process, resolveVars, dispatchVars, err, sideVars>>

\* exec.CommandContext: the goroutine cmd.Start leaves behind kills the
\* process once the context is done
CtxKill ==
    /\ Running /\ tun.proc = "running" /\ tun.ctx = "cancelled"
    /\ tun' = [tun EXCEPT !.proc = "killed", !.listening = FALSE]
    /\ UNCHANGED <<variant, pc, Action, process, resolveVars, dispatchVars, err, sideVars>>

\* NewDBusTunnel (listener): getFreeLocalAddr, then context.WithCancel
GetFreeLocalAddr ==
    /\ pc = "executeHandler" /\ Running /\ variant = "tcp"
    /\ \E ok \in BOOLEAN :
          IF ok
          THEN /\ tun' = [tun EXCEPT !.ctx = "live"]
               /\ pc' = "listen"
               /\ UNCHANGED err
          ELSE ReturnTunnelError /\ UNCHANGED tun
    /\ UNCHANGED <<variant, Action, process, resolveVars, dispatchVars, sideVars>>

\* NewDBusTunnel (listener): sshtunnel.ListenContext and the goroutine on errCh
ListenContext ==
    /\ pc = "listen" /\ Running
    /\ \E ok \in BOOLEAN :
          IF ok
          THEN /\ tun' = [tun EXCEPT !.listener = "open", !.monitor = TRUE]
               /\ pc' = "stunNew"
               /\ UNCHANGED err
          ELSE ReturnTunnelError /\ UNCHANGED tun
    /\ UNCHANGED <<variant, Action, process, resolveVars, dispatchVars, sideVars>>

\* the goroutine on errCh: `log.Fatalf("tunnel connection failed: %v", err)`
TunnelFatal ==
    /\ Running /\ tun.monitor
    /\ process' = "fatal"
    /\ UNCHANGED <<variant, pc, Action, tun, resolveVars, dispatchVars, err, sideVars>>

\* a mutation of the setup: the D-BUS error is recorded but not returned
StunNewNoReturn ==
    /\ pc = "stunNew" /\ Running
    /\ \E ok \in BOOLEAN :
          /\ ok => TunnelAlive
          /\ pc' = "resolve"
          /\ err' = IF ok THEN err ELSE Err("dbus")
          /\ UNCHANGED tun
    /\ UNCHANGED <<variant, Action, process, resolveVars, dispatchVars, sideVars>>

\* `conn, err := stun.New()`
StunNew ==
    /\ pc = "stunNew" /\ Running
    /\ \E ok \in BOOLEAN :
          /\ ok => TunnelAlive
          /\ IF ok THEN pc' = "resolve" /\ UNCHANGED <<tun, err>>
             ELSE ReturnClosing(Err("dbus"))
    /\ UNCHANGED <<variant, Action, process, resolveVars, dispatchVars, sideVars>>

\* ----------------------------------------------------- resolving the units

\* what systemd's ListUnitsFiltered answers: the units in one of the states
\* (every unit when no state is given)
systemdListUnitsFiltered(units, states) ==
    IF Len(states) = 0 THEN units ELSE FilterByState(units, states)

\* what systemd's ListUnitsByPatterns answers: fnmatch of the unit name
\* against the patterns (every unit when no pattern is given), in the states.
\* fnmatch reads an unclosed "[" as a literal, which no unit name holds, so
\* such a pattern matches nothing there and raises no error.
systemdListUnitsByPatterns(units, states, patterns) ==
    LET named == IF Len(patterns) = 0 THEN units
                 ELSE MatchUnitPatterns(SelectSeq(patterns, LAMBDA q : ~BadPattern(q)), units).units
    IN  systemdListUnitsFiltered(named, states)

\* listUnitsByPatternWrapper: listed/listErr are what
\* conn.ListUnitsByPatternsContext returned
listUnitsByPatternWrapper(listed, listErr, states, patterns) ==
    IF listErr THEN [units |-> <<>>, err |-> TRUE]
    ELSE [units |-> listed, err |-> FALSE]

\* listUnitsFilteredWrapper: listed/listErr are what
\* conn.ListUnitsFilteredContext returned
listUnitsFilteredWrapper(listed, listErr, states, patterns) ==
    IF listErr THEN [units |-> <<>>, err |-> TRUE]
    ELSE LET m == MatchUnitPatterns(patterns, listed) IN
         IF m.err THEN [units |-> <<>>, err |-> TRUE]
         ELSE [units |-> m.units, err |-> FALSE]

\* the D-Bus method a fetcher calls
FetcherMethod(fetcher) ==
    CASE fetcher = "listUnitsByPatternWrapper" -> ListUnitsByPatterns
      [] fetcher = "listUnitsFilteredWrapper" -> ListUnitsFiltered
      [] fetcher = "listUnitsWrapper" -> ListUnits

\* unitFetcher(conn, nil, plugin.UnitPatterns) against a remote systemd
\* holding `remote`; ioErr is a failed call
CallFetcher(fetcher, remote, ioErr, states, patterns) ==
    CASE fetcher = "listUnitsByPatternWrapper" ->
            listUnitsByPatternWrapper(systemdListUnitsByPatterns(remote, states, patterns),
                                      ioErr, states, patterns)
      [] fetcher = "listUnitsFilteredWrapper" ->
            listUnitsFilteredWrapper(systemdListUnitsFiltered(remote, states),
                                     ioErr, states, patterns)
      [] fetcher = "listUnitsWrapper" ->
            listUnitsWrapper(remote, ioErr, states, patterns)

\* MatchUnitPatterns on its own: fetchIn.listed are the units handed to it
ApplyMatchUnitPatterns ==
    /\ fetchIn.fn # "idle" /\ fetchOut.fn = "idle"
    /\ fetchOut' = [fn |-> "MatchUnitPatterns",
                    res |-> MatchUnitPatterns(fetchIn.patterns, fetchIn.listed)]
    /\ UNCHANGED <<fetchIn, introVars, runVars, hostVars>>

\* the two other fetchers against a remote systemd holding fetchIn.listed
ApplyListUnitsByPatternWrapper ==
    /\ fetchIn.fn # "idle" /\ fetchOut.fn = "idle"
    /\ fetchOut' = [fn |-> "listUnitsByPatternWrapper",
                    res |-> CallFetcher("listUnitsByPatternWrapper", fetchIn.listed, fetchIn.listErr,
                                        fetchIn.states, fetchIn.patterns)]
    /\ UNCHANGED <<fetchIn, introVars, runVars, hostVars>>

ApplyListUnitsFilteredWrapper ==
    /\ fetchIn.fn # "idle" /\ fetchOut.fn = "idle"
    /\ fetchOut' = [fn |-> "listUnitsFilteredWrapper",
                    res |-> CallFetcher("listUnitsFilteredWrapper", fetchIn.listed, fetchIn.listErr,
                                        fetchIn.states, fetchIn.patterns)]
    /\ UNCHANGED <<fetchIn, introVars, runVars, hostVars>>

NextFetch ==
    \/ ApplyListUnitsWrapper
    \/ ApplyMatchUnitPatterns
    \/ ApplyListUnitsByPatternWrapper
    \/ ApplyListUnitsFilteredWrapper

SpecFetch == InitFetch /\ [][NextFetch]_vars

\* the unit names, pattern lists and remote unit lists a run draws
RunNames == {<<"a">>, <<"b">>}
RunNameLists == SeqsUpTo(RunNames, MaxUnits) \ {<<>>}
RunPatternLists == {<<p>> : p \in {<<"a">>, <<"*">>, <<"[">>}}
RunRemoteLists == SeqsUpTo({Unit(<<"a">>, "active", "running"), Unit(<<"b">>, "active", "running")}, MaxUnits)

\* `errors := make(chan error, len(unitNames))`, no goroutine yet
StartDispatch(names) ==
    /\ unitNames' = names
    /\ pc' = "spawn"
    /\ UNCHANGED <<tasks, wg, errors, errorsClosed, tun, err>>

\* !plugin.MatchUnits: "Use unit names as-is"
UseNamesAsIs ==
    /\ pc = "resolve" /\ Running
    /\ \E names \in RunNameLists : StartDispatch(names)
    /\ UNCHANGED <<variant, Action, process, resolveVars, sideVars>>

\* plugin.MatchUnits: service.InstrospectForUnitMethods(nil), on the local bus
Introspect ==
    /\ pc = "resolve" /\ Running
    /\ \E ifaces \in SeqsUpTo(SUBSET MethodNames, 1), busErr \in BOOLEAN, xmlErr \in BOOLEAN :
          LET r == InstrospectForUnitMethods(ifaces, busErr, xmlErr) IN
          IF r.fetcher = "none"
          THEN ReturnClosing(Err("introspect")) /\ UNCHANGED unitFetcher
          ELSE /\ unitFetcher' = r.fetcher
               /\ pc' = "fetch"
               /\ UNCHANGED <<tun, err>>
    /\ UNCHANGED <<variant, Action, process, fetchCall, dispatchVars, sideVars>>

\* `unitStats, err := unitFetcher(conn, nil, plugin.UnitPatterns)` and the
\* loop appending unit.Name
Fetch ==
    /\ pc = "fetch" /\ Running
    /\ \E has \in SUBSET {ListUnitsByPatterns, ListUnitsFiltered, ListUnits},
          remote \in RunRemoteLists, patterns \in RunPatternLists, ioErr \in BOOLEAN :
          LET method == FetcherMethod(unitFetcher)
              r == CallFetcher(unitFetcher, remote, ioErr \/ method \notin has, <<>>, patterns)
          IN  /\ fetchCall' = [method |-> method, supported |-> method \in has]
              /\ IF r.err
                 THEN ReturnClosing(Err("list")) /\ UNCHANGED dispatchVars
                 ELSE StartDispatch([i \in 1..Len(r.units) |-> r.units[i].Name])
    /\ UNCHANGED <<variant, Action, process, unitFetcher, sideVars>>

\* ------------------------------------------------------------ the fan-out

JobResults == {"done", "failed", "canceled"}

NewTask == [pc |-> "getActionFunc", af |-> "nil", failed |-> FALSE, result |-> "none"]

\* `wg.Add(1); go func(unitName string) {...}(unitName)`
Spawn ==
    /\ pc = "spawn" /\ Running /\ Len(tasks) < Len(unitNames)
    /\ tasks' = Append(tasks, NewTask)
    /\ wg' = wg + 1
    /\ UNCHANGED <<variant, pc, Action, tun, process, resolveVars, unitNames, errors,
                   errorsClosed, err, sideVars>>

\* a send on errors: it blocks while the buffer is full
CanSend == Len(errors) < Len(unitNames) /\ ~errorsClosed

\* `af, err2 := getActionFunc(conn); if err2 != nil { errors <- err2 }`
TaskGetActionFunc(i) ==
    /\ Running /\ tasks[i].pc = "getActionFunc"
    /\ LET af == getActionFunc(Action) IN
       /\ tasks' = [tasks EXCEPT ![i].pc = "invoke", ![i].af = af]
       /\ IF af = "nil"
          THEN CanSend /\ errors' = Append(errors, [unit |-> i, what |-> "unsupported"])
          ELSE UNCHANGED errors
    /\ UNCHANGED <<variant, pc, Action, tun, process, resolveVars, unitNames, wg,
                   errorsClosed, err, sideVars>>

\* a mutation of the failure path: the failing task ends its siblings too,
\* as a cancel-on-first-error group would
InvokeFailedCancels(i) ==
    /\ CanSend
    /\ errors' = Append(errors, [unit |-> i, what |-> "action"])
    /\ tasks' = [j \in 1..Len(tasks) |->
                    IF j = i THEN [tasks[j] EXCEPT !.pc = "done", !.failed = TRUE]
                    ELSE [tasks[j] EXCEPT !.pc = "done"]]
    /\ wg' = 0
    /\ UNCHANGED process

\* a mutation of the failure path: the error is sent once where it is logged
\* and once more before the return
InvokeFailedSendsTwice(i) ==
    /\ CanSend
    /\ errors' = errors \o <<[unit |-> i, what |-> "action"], [unit |-> i, what |-> "action"]>>
    /\ tasks' = [tasks EXCEPT ![i].pc = "done", ![i].failed = TRUE]
    /\ wg' = wg - 1
    /\ UNCHANGED process

\* the task's invocation failed: `errors <- err2; return`, and the deferred wg.Done()
InvokeFailed(i) ==
    /\ CanSend
    /\ errors' = Append(errors, [unit |-> i, what |-> "action"])
    /\ tasks' = [tasks EXCEPT ![i].pc = "done", ![i].failed = TRUE]
    /\ wg' = wg - 1
    /\ UNCHANGED process

\* `_, err2 = af(unitName, plugin.Mode, resultCh)`: a job id, which only a
\* live tunnel brings back, or an error; a nil af panics and the process dies
TaskInvoke(i) ==
    /\ Running /\ tasks[i].pc = "invoke"
    /\ IF tasks[i].af = "nil"
       THEN process' = "fatal" /\ UNCHANGED <<tasks, wg, errors>>
       ELSE \E ok \in BOOLEAN :
               IF ok
               THEN /\ TunnelAlive
                    /\ tasks' = [tasks EXCEPT ![i].pc = "await"]
                    /\ UNCHANGED <<wg, errors, process>>
               ELSE InvokeFailed(i)
    /\ UNCHANGED <<variant, pc, Action, tun, resolveVars, unitNames, errorsClosed, err, sideVars>>

\* `result := <-resultCh; close(resultCh)`, the log line and wg.Done(): the
\* job's completion signal came through the tunnel
TaskReceive(i) ==
    /\ Running /\ tasks[i].pc = "await" /\ TunnelAlive
    /\ \E r \in JobResults :
          tasks' = [tasks EXCEPT ![i].pc = "done", ![i].result = r]
    /\ wg' = wg - 1
    /\ UNCHANGED <<variant, pc, Action, tun, process, resolveVars, unitNames, errors,
                   errorsClosed, err, sideVars>>

\* a mutation of the barrier: the wait does not wait
WgWaitNoBarrier ==
    /\ pc = "spawn" /\ Running /\ Len(tasks) = Len(unitNames)
    /\ pc' = "close"
    /\ UNCHANGED <<variant, Action, tun, process, resolveVars, dispatchVars, err, sideVars>>

\* `wg.Wait()` returns
WgWait ==
    /\ pc = "spawn" /\ Running /\ Len(tasks) = Len(unitNames)
    /\ wg = 0
    /\ pc' = "close"
    /\ UNCHANGED <<variant, Action, tun, process, resolveVars, dispatchVars, err, sideVars>>

\* a mutation of the close: errors is closed once the tasks are spawned,
\* ahead of wg.Wait()
CloseErrorsEarly ==
    /\ pc = "spawn" /\ Running /\ Len(tasks) = Len(unitNames)
    /\ errorsClosed' = TRUE
    /\ pc' = "drain"
    /\ UNCHANGED <<variant, Action, tun, process, resolveVars, unitNames, tasks, wg, errors,
                   err, sideVars>>

\* `close(errors)`
CloseErrors ==
    /\ pc = "close" /\ Running
    /\ errorsClosed' = TRUE
    /\ pc' = "drain"
    /\ UNCHANGED <<variant, Action, tun, process, resolveVars, unitNames, tasks, wg, errors,
                   err, sideVars>>

\* a mutation of the drain: `err = err2`, which keeps the last error only
DrainKeepsLast ==
    /\ pc = "drain" /\ Running
    /\ err' = IF errors = <<>> THEN err
              ELSE [kind |-> "multi", errs |-> <<errors[Len(errors)]>>]
    /\ errors' = <<>>
    /\ pc' = "return"
    /\ UNCHANGED <<variant, Action, tun, process, resolveVars, unitNames, tasks, wg,
                   errorsClosed, sideVars>>

\* `for err2 := range errors { err = multierr.Append(err, err2) }`
Drain ==
    /\ pc = "drain" /\ Running
    /\ err' = IF errors = <<>> THEN err ELSE [kind |-> "multi", errs |-> err.errs \o errors]
    /\ errors' = <<>>
    /\ pc' = "return"
    /\ UNCHANGED <<variant, Action, tun, process, resolveVars, unitNames, tasks, wg,
                   errorsClosed, sideVars>>

\* `return err`, running the deferred stun.Close()
Return ==
    /\ pc = "return" /\ Running
    /\ ReturnClosing(err)
    /\ UNCHANGED <<variant, Action, process, resolveVars, dispatchVars, sideVars>>

Next ==
    \/ CheckArgs
    \/ MkdirTemp \/ CmdStart \/ WatcherNew \/ WatcherAdd
    \/ SelectEvent \/ SelectTimeout \/ SelectError
    \/ SshCreatesSocket \/ SshListens \/ SshExits \/ CtxKill
    \/ GetFreeLocalAddr \/ ListenContext \/ TunnelFatal
    \/ StunNew \/ UseNamesAsIs \/ Introspect \/ Fetch
    \/ Spawn
    \/ \E i \in 1..Len(tasks) : TaskGetActionFunc(i) \/ TaskInvoke(i) \/ TaskReceive(i)
    \/ WgWait \/ CloseErrors \/ Drain \/ Return

Spec == Init /\ [][Next]_vars

\* ================================================================ claims

Failed == {i \in 1..Len(tasks) : tasks[i].failed}

\* the run went through the dispatch phase and produced its aggregate
Aggregated == pc = "returned" /\ err.kind \in {"nil", "multi"}

\* the aggregate is being, or has been, produced
PastBarrier == pc \in {"close", "drain", "return"} \/ Aggregated

\* C1: once some unit's invocation has failed, every other unit is still
\* spawned, its task can still take each of its steps, and by the time the
\* aggregate is made it has been invoked and has received its terminal result.
C1_SiblingsUnaffected ==
    (Running /\ Failed # {}) =>
        \A i \in (1..Len(unitNames)) \ Failed :
            /\ i > Len(tasks) => ENABLED Spawn
            /\ i <= Len(tasks) =>
                  /\ tasks[i].pc = "getActionFunc" => ENABLED TaskGetActionFunc(i)
                  /\ tasks[i].pc = "invoke" => ENABLED TaskInvoke(i)
                  /\ (tasks[i].pc = "await" /\ TunnelAlive) => ENABLED TaskReceive(i)
                  /\ tasks[i].pc = "done" => tasks[i].result \in JobResults
            /\ PastBarrier => (i <= Len(tasks) /\ tasks[i].result \in JobResults)

C1_Witness ==
    /\ Aggregated
    /\ \E i, j \in 1..Len(tasks) : tasks[i].failed /\ tasks[j].result = "done"

C2_WitnessEmpty == Aggregated /\ unitNames = <<>> /\ err.kind = "nil"

\* C3: a unit whose job was started and whose completion signal carries a
\* failing terminal status contributes one error to the aggregate.
C3_CompletionFailureSurfaced ==
    Aggregated =>
        \A i \in 1..Len(tasks) :
            tasks[i].result \in {"failed", "canceled"} =>
                Cardinality({k \in 1..Len(err.errs) : err.errs[k].unit = i}) = 1

\* C4: when the error channel is closed and drained and the aggregate made,
\* every dispatched unit's task has finished, having either recorded its
\* invocation error or received its completion signal; none is still waiting.
C4_JoinBarrier ==
    (PastBarrier \/ errorsClosed) =>
        /\ wg = 0
        /\ Len(tasks) = Len(unitNames)
        /\ \A i \in 1..Len(tasks) :
              /\ tasks[i].pc = "done"
              /\ tasks[i].failed \/ tasks[i].result \in JobResults

C4_Witness ==
    /\ errorsClosed /\ Len(tasks) = 2
    /\ \E i, j \in 1..Len(tasks) : tasks[i].failed /\ tasks[j].result \in JobResults

\* C5: a run whose setup failed (tunnel, D-Bus connection, introspection,
\* unit listing) has returned that error at once and has spawned no task, so
\* that no unit action was invoked.
C5_SetupFailureNoDispatch ==
    err.kind \in {"tunnel", "dbus", "introspect", "list"} =>
        /\ pc = "returned"
        /\ tasks = <<>> /\ unitNames = <<>>

C5_Witness == err.kind = "list" /\ pc = "returned" /\ tun.closes = 1

\* NewDBusTunnel returned a tunnel in this run
Opened ==
    \/ pc \in {"stunNew", "resolve", "fetch", "spawn", "close", "drain", "return"}
    \/ pc = "returned" /\ err.kind # "tunnel"

Released ==
    IF variant = "unix"
    THEN tun.proc # "running" /\ tun.tmpdir = "removed" /\ tun.ctx = "cancelled"
    ELSE tun.listener = "closed" /\ tun.ctx = "cancelled"

\* C6: whenever a run that opened the tunnel has ended, by returning or by
\* the process being terminated, the tunnel's resources have been released,
\* by exactly one Close.
C6_ReleasedOnEveryExit ==
    (Opened /\ (pc = "returned" \/ process = "fatal")) =>
        (tun.closes = 1 /\ Released)

\* C7: when NewDBusTunnel has returned an error, no forwarding process is
\* running, no temporary directory is left and the derived context is cancelled.
C7_FailedOpenReleasesAll ==
    (pc = "returned" /\ err.kind = "tunnel") =>
        /\ tun.proc # "running"
        /\ tun.tmpdir # "present"
        /\ tun.ctx # "live"

\* C8: after Open and a Close with no connection made (the ssh variant), the
\* ssh process is terminated and the temp directory is gone.
C8_OpenCloseLeavesNothing ==
    (variant = "unix" /\ pc = "returned" /\ err.kind = "dbus") =>
        /\ tun.proc # "running"
        /\ tun.tmpdir = "removed" /\ ~tun.sock

\* C9: for a document that was fetched and parsed, the fetcher is the
\* pattern-native one if ListUnitsByPatterns is there, else the filtered one
\* if ListUnitsFiltered is, else the basic one if ListUnits is, else the
\* call fails naming the ListUnits* methods it found; one outcome in all.
C9_StrictPreference ==
    (introOut.fn # "idle" /\ ~introIn.busErr /\ ~introIn.xmlErr /\ Len(introIn.ifaces) > 0) =>
        LET all == UNION Range(introIn.ifaces)
            r == introOut.res
        IN  /\ ListUnitsByPatterns \in all => r.fetcher = "listUnitsByPatternWrapper"
            /\ (ListUnitsByPatterns \notin all /\ ListUnitsFiltered \in all)
                  => r.fetcher = "listUnitsFilteredWrapper"
            /\ (ListUnitsByPatterns \notin all /\ ListUnitsFiltered \notin all /\ ListUnits \in all)
                  => r.fetcher = "listUnitsWrapper"
            /\ ({ListUnitsByPatterns, ListUnitsFiltered, ListUnits} \cap all = {})
                  => (r.fetcher = "none" /\ r.error = "unsupported" /\ r.methods = all \ {GetUnit})
            /\ (r.error = "nil") <=> (r.fetcher # "none")

C9_Witness ==
    /\ introOut.fn # "idle"
    /\ \E k \in 1..Len(introIn.ifaces) :
          {ListUnitsByPatterns, ListUnitsFiltered, ListUnits} \subseteq introIn.ifaces[k]
    /\ introOut.res.fetcher = "listUnitsByPatternWrapper"

C9_WitnessUnsupported ==
    /\ introOut.fn # "idle"
    /\ introOut.res.error = "unsupported" /\ introOut.res.methods = {ListUnitsByNames}

MatchesSome(unit, patterns) ==
    \E k \in 1..Len(patterns) : Match(patterns[k], unit.Name).matched

\* C10 as stated: whatever the states and patterns, the listed units are
\* kept exactly when the name matches a pattern and a state field equals a
\* requested state.
C10_AlwaysBothFilters ==
    (fetchOut.fn = "listUnitsWrapper" /\ ~fetchOut.res.err) =>
        fetchOut.res.units =
            SelectSeq(fetchIn.listed,
                      LAMBDA u : MatchesSome(u, fetchIn.patterns) /\ StateHit(u, fetchIn.states))

\* C10, amended: the listed units are filtered by pattern when a pattern is
\* given and by state when a state is given; an empty list does not filter.
\* The call fails only if listing fails or a pattern is malformed.
C10_FiltersWhenGiven ==
    fetchOut.fn = "listUnitsWrapper" =>
        /\ ~fetchOut.res.err =>
              fetchOut.res.units =
                  SelectSeq(fetchIn.listed,
                            LAMBDA u : /\ fetchIn.patterns = <<>> \/ MatchesSome(u, fetchIn.patterns)
                                       /\ fetchIn.states = <<>> \/ StateHit(u, fetchIn.states))
        /\ fetchOut.res.err =>
              (fetchIn.listErr \/ \E k \in 1..Len(fetchIn.patterns) : BadPattern(fetchIn.patterns[k]))

C10_Witness ==
    /\ fetchOut.fn = "listUnitsWrapper" /\ ~fetchOut.res.err
    /\ fetchIn.patterns # <<>> /\ fetchIn.states # <<>>
    /\ Len(fetchIn.listed) = 2 /\ Len(fetchOut.res.units) = 1

C10_WitnessUnfiltered ==
    /\ fetchOut.fn = "listUnitsWrapper" /\ ~fetchOut.res.err
    /\ fetchIn.patterns = <<>> /\ fetchIn.states = <<>>
    /\ fetchIn.listed # <<>> /\ fetchOut.res.units = fetchIn.listed

\* ---------------------------------------------------------------- C11

\* executeHandler's loop over unitStats: the names, in order
NamesOf(units) == [i \in 1..Len(units) |-> units[i].Name]

\* C11 as stated: patterns nginx* and redis against the active units
\* nginx.service, redis.service and mysql.service, through the fetcher bound
\* when only ListUnits is advertised, resolve to nginx.service and
\* redis.service.
C11_ExampleResolvesBoth ==
    (fetchOut.fn = "listUnitsWrapper" /\ fetchIn = ExampleFetch) =>
        /\ ~fetchOut.res.err
        /\ Range(NamesOf(fetchOut.res.units)) = {NginxService, RedisService}

\* C11, amended: the same call resolves to nginx.service alone, because the
\* pattern redis has no wildcard and matches only a unit named redis.
C11_ExampleResolvesNginxOnly ==
    (fetchOut.fn = "listUnitsWrapper" /\ fetchIn = ExampleFetch) =>
        /\ InstrospectForUnitMethods(<<{ListUnits}>>, FALSE, FALSE).fetcher = "listUnitsWrapper"
        /\ ~fetchOut.res.err
        /\ NamesOf(fetchOut.res.units) = <<NginxService>>

C11_Witness ==
    /\ fetchOut.fn = "listUnitsWrapper" /\ fetchIn = ExampleFetch
    /\ Len(fetchOut.res.units) = 1

\* ---------------------------------------------------------------- C12

\* the reorderings of a pattern list
PermutationsOf(patterns) ==
    LET n == Len(patterns) IN
    {[i \in 1..n |-> patterns[f[i]]] :
        f \in {g \in [1..n -> 1..n] : \A i, j \in 1..n : g[i] = g[j] => i = j}}

\* C12: MatchUnitPatterns(P, U) returns the units of U whose name matches
\* some pattern of P, once each and in the order of U, and every reordering
\* of P gives the same units and the same success or failure.
C12_MatchAnyOrderFree ==
    fetchOut.fn = "MatchUnitPatterns" =>
        /\ ~fetchOut.res.err =>
              fetchOut.res.units =
                  SelectSeq(fetchIn.listed, LAMBDA u : MatchesSome(u, fetchIn.patterns))
        /\ \A q \in PermutationsOf(fetchIn.patterns) :
              LET other == MatchUnitPatterns(q, fetchIn.listed) IN
              other.err = fetchOut.res.err /\ other.units = fetchOut.res.units

\* ---------------------------------------------------------------- C13

\* C13: a pattern list holding a malformed pattern makes MatchUnitPatterns
\* fail, naming a malformed pattern and returning no unit, whatever the
\* unit list.
C13_MalformedAlwaysFails ==
    (/\ fetchOut.fn = "MatchUnitPatterns"
     /\ \E k \in 1..Len(fetchIn.patterns) : BadPattern(fetchIn.patterns[k])) =>
        /\ fetchOut.res.err
        /\ fetchOut.res.units = <<>>
        /\ BadPattern(fetchOut.res.pattern)

\* ---------------------------------------------------------------- C19

\* C19: against the same remote units, states and patterns, each of the two
\* richer fetchers returns the same set of units as listUnitsWrapper whenever
\* both calls succeed.
C19_FetchersAgree ==
    fetchOut.fn \in {"listUnitsByPatternWrapper", "listUnitsFilteredWrapper"} =>
        LET basic == CallFetcher("listUnitsWrapper", fetchIn.listed, fetchIn.listErr,
                                 fetchIn.states, fetchIn.patterns)
        IN  (~basic.err /\ ~fetchOut.res.err) =>
                Range(fetchOut.res.units) = Range(basic.units)

\* ---------------------------------------------------------------- C14

\* C14: checkArgs accepts an action exactly when getActionFunc maps it to a
\* conn method; a run with another action is rejected with nothing opened and
\* nothing dispatched, and in a run that passed checkArgs no task gets a nil
\* af or sends the unsupported-action error.
C14_UnsupportedRejectedOnce ==
    /\ \A a \in ActionInputs, m \in Range(AllowedModes) :
          (checkArgs(1, a, m) = "nil") <=> (getActionFunc(a) # "nil")
    /\ pc = "rejected" => (tun = NoTunnel /\ tasks = <<>> /\ unitFetcher = "none")
    /\ pc \notin {"checkArgs", "rejected"} => getActionFunc(Action) # "nil"
    /\ \A i \in 1..Len(tasks) : tasks[i].pc # "getActionFunc" => tasks[i].af # "nil"
    /\ \A k \in 1..Len(errors) : errors[k].what # "unsupported"

C14_Witness ==
    /\ Action = "reload-or-try-restart"
    /\ \E i \in 1..Len(tasks) : tasks[i].pc = "await" /\ tasks[i].af = "ReloadOrTryRestartUnit"

C14_WitnessRejected == pc = "rejected" /\ Action = "status"

\* ---------------------------------------------------------------- C15

\* C15: once Close has run on the ssh tunnel, a forwarding process that
\* existed has been terminated, the context is cancelled and the temp
\* directory is removed.
C15_CloseRunsEveryStep ==
    (variant = "unix" /\ tun.closes > 0) =>
        /\ tun.proc \notin {"running"}
        /\ tun.ctx = "cancelled"
        /\ tun.tmpdir = "removed"

\* ---------------------------------------------------------------- C16

\* NewDBusTunnel returned a tunnel and the forwarding mechanism has died since
DeadTunnel == Opened /\ tun.closes = 0 /\ variant = "unix" /\ tun.proc = "exited"

\* C16: a run whose forwarding process died after the tunnel was opened does
\* not hang: while it has neither returned nor been terminated, a step of
\* the run is still possible.
C16_DeadTunnelSurfaced ==
    (DeadTunnel /\ Running /\ pc # "returned") => ENABLED Next

\* ---------------------------------------------------------------- C17

\* C17: when waitForSocket returns nil, dbus.sock exists in the temp
\* directory and the forwarding process is running and listening on it.
C17_ReadyWhenReturned ==
    [][SelectEvent => (tun'.sock /\ tun'.proc = "running" /\ tun'.listening)]_vars

\* ---------------------------------------------------------------- C20

\* C20: the method the bound fetcher calls on the remote connection is one
\* the remote systemd has.
C20_BoundMethodSupported ==
    fetchCall.method # <<>> => fetchCall.supported

\* ---------------------------------------------------------------- C18

\* the invocation's rendezvous point exists: its directory is created, or
\* its address bound
Holds(i) == calls[i].pc \in {"run", "open"}

\* C18: two invocations that hold a rendezvous point at the same time hold
\* different ones, and no invocation fails because its point was taken.
C18_FreshRendezvous ==
    /\ \A i, j \in 1..Len(calls) :
          (i # j /\ Holds(i) /\ Holds(j)) => calls[i].point # calls[j].point
    /\ \A i \in 1..Len(calls) : calls[i].pc # "collided"

\* ---------------------------------------------------------------- C21

\* the errors task i has sent that are still in the channel
SentBy(i) == {k \in 1..Len(errors) : errors[k].unit = i}

\* C21: the errors channel never holds more than one error per dispatched
\* unit nor more than its capacity, and a task that has yet to reach its
\* send finds room in the channel, so no send blocks.
C21_SendNeverBlocks ==
    /\ Len(errors) <= Len(unitNames)
    /\ \A i \in 1..Len(tasks) : Cardinality(SentBy(i)) <= 1
    /\ \A i \in 1..Len(tasks) :
          (Running /\ tasks[i].pc \in {"getActionFunc", "invoke"}) =>
              (CanSend /\ (ENABLED TaskGetActionFunc(i) \/ ENABLED TaskInvoke(i)))

C21_Witness ==
    /\ pc = "spawn" /\ Len(unitNames) = 2
    /\ Len(errors) = Len(unitNames)
    /\ \A i \in 1..Len(tasks) : tasks[i].failed

\* ---------------------------------------------------------------- C22

\* C22: the dispatch phase is held up by nothing but a completion signal: a
\* task that awaits its signal keeps wg.Wait from returning and the run in
\* the dispatch phase, while every other step of the tasks and of the main
\* goroutine, up to the return of the aggregate, can always be taken.
C22_ReturnsIffSignalled ==
    /\ (\E i \in 1..Len(tasks) : tasks[i].pc = "await") => (pc = "spawn" /\ ~ENABLED WgWait)
    /\ Running =>
          /\ \A i \in 1..Len(tasks) :
                /\ tasks[i].pc = "getActionFunc" => ENABLED TaskGetActionFunc(i)
                /\ tasks[i].pc = "invoke" => ENABLED TaskInvoke(i)
          /\ (pc = "spawn" /\ Len(tasks) < Len(unitNames)) => ENABLED Spawn
          /\ (pc = "spawn" /\ Len(tasks) = Len(unitNames)
                /\ \A i \in 1..Len(tasks) : tasks[i].pc = "done") => ENABLED WgWait
          /\ pc = "close" => ENABLED CloseErrors
          /\ pc = "drain" => ENABLED Drain
          /\ pc = "return" => ENABLED Return

\* one unit is done, the other awaits a signal that cannot come, and the run
\* is stuck in the dispatch phase
C22_Witness ==
    /\ Running /\ pc = "spawn" /\ Len(tasks) = 2
    /\ \E i, j \in 1..Len(tasks) :
          /\ tasks[i].pc = "done" /\ tasks[i].result \in JobResults
          /\ tasks[j].pc = "await"
    /\ ~TunnelAlive
    /\ ~ENABLED Next

\* every unit got its signal and the aggregate was returned
C22_WitnessReturned ==
    /\ Aggregated /\ Len(tasks) = 2
    /\ \A i \in 1..Len(tasks) : tasks[i].result \in JobResults

\* ---------------------------------------------------------------- C23

\* the units whose error is in a sequence of errors
UnitsIn(errs) == {errs[k].unit : k \in 1..Len(errs)}

\* C23: errors is closed only when every task has returned; from the close
\* on nothing more is sent, and the drain hands every error that was sent,
\* one per failed task, to the aggregate.
C23_ClosedAfterAllReturned ==
    /\ errorsClosed =>
          /\ Len(tasks) = Len(unitNames) /\ wg = 0
          /\ \A i \in 1..Len(tasks) : tasks[i].pc = "done"
    /\ pc = "drain" => (UnitsIn(errors) = Failed /\ Len(errors) = Cardinality(Failed))
    /\ (pc = "return" \/ Aggregated) =>
          /\ errors = <<>>
          /\ UnitsIn(err.errs) = Failed /\ Len(err.errs) = Cardinality(Failed)

C23_Witness ==
    /\ Aggregated /\ errorsClosed
    /\ Len(unitNames) = 2 /\ Len(err.errs) = 2

\* ---------------------------------------------------------------- C24

\* C24: waitForSocket does not give up with a timeout while the forwarding
\* process is running and listening on the socket it created.
C24_ReadyNeverTimesOut ==
    [][SelectTimeout => ~(tun.sock /\ tun.listening /\ tun.proc = "running")]_vars

====
